---- MODULE Spec2Model ----
(***************************************************************************)
(* Model of plotters' data::quartiles::Quartiles.                          *)
(*                                                                         *)
(* A caller holds a sample (a slice of numbers) and calls one of the three *)
(* constructors new / real / fair, or the private helper                   *)
(* percentile_of_sorted is applied to a sorted slice.  A call either       *)
(* returns a five-number summary or panics.                                *)
(*                                                                         *)
(* f64 values are represented in fixed point: the integer x stands for the *)
(* f64 x / Unit.  All samples are small integers and every weight the code *)
(* multiplies by is a multiple of 1/4 (quartile weights) or 3/2 (fences),  *)
(* so every f64 operation of the code is exact on these inputs and the     *)
(* fixed-point result is the f64 result.                                   *)
(***************************************************************************)
EXTENDS Integers, Sequences, FiniteSets

\* ---------------------------------------------------------------- bounds
MaxLen == 7
MaxVal == 2
\* longest sample whose rearrangements are enumerated
MaxPermLen == 5

Values == 0..MaxVal
\* percentiles handed to percentile_of_sorted: the three the constructors
\* use, the two ends of the accepted range, and one on each side outside it
Pcts == {0 - 25, 0, 25, 50, 75, 100, 125}

Samples == UNION {[1..n -> Values] : n \in 0..MaxLen}

\* ------------------------------------------------------ f64 fixed point
\* denominator of the quartile weights (p * n / 4.0, and 25/50/75 percent)
Quarter == 4
\* 1/Unit is the resolution: quarters, halved once by the 1.5 * iqr fences
Unit == Quarter * 2

\* T::into() -> f64
Into(x) == x * Unit

\* 1.5 * x
OneAndHalf(x) == (3 * x) \div 2

\* f64::max / f64::min
Max(a, b) == IF a >= b THEN a ELSE b
Min(a, b) == IF a <= b THEN a ELSE b

\* ------------------------------------------------------------- results
\* a computation either yields a value or panics; idx is the set of
\* (zero-based) slice indices it read
Ok(v, idx) == [st |-> "ok", v |-> v, idx |-> idx]
Fail(reason, idx) == [st |-> reason, v |-> 0, idx |-> idx]

\* s[i] on a slice, zero-based
InBounds(s, i) == i \in 0..(Len(s) - 1)
At(s, i) == s[i + 1]

\* s[i].into(): panics when i is out of bounds
Elem(s, i) ==
    IF InBounds(s, i) THEN Ok(Into(At(s, i)), {i}) ELSE Fail("index", {i})

\* s[n] + (s[n + 1] - s[n]) * num / den, reading s[n] then s[n + 1]
Lerp(s, n, num, den) ==
    IF ~InBounds(s, n) THEN Fail("index", {n})
    ELSE IF ~InBounds(s, n + 1) THEN Fail("index", {n, n + 1})
    ELSE LET lo == Into(At(s, n))
             hi == Into(At(s, n + 1))
         IN  Ok(lo + ((hi - lo) * num) \div den, {n, n + 1})

\* `x as usize` of a floored f64: negative values saturate to 0
AsUsize(x) == IF x < 0 THEN 0 ELSE x

\* ---------------------------------------------------------------- sort
RECURSIVE Insert(_, _)
Insert(x, s) ==
    IF s = <<>> THEN <<x>>
    ELSE IF x <= Head(s) THEN <<x>> \o s
    ELSE <<Head(s)>> \o Insert(x, Tail(s))

RECURSIVE SortFrom(_)
SortFrom(s) == IF s = <<>> THEN <<>> ELSE Insert(Head(s), SortFrom(Tail(s)))

\* mutant: the sort is skipped
sort_unstable_by_noop(s) == s

\* s.to_owned() followed by sort_unstable_by(partial_cmp): ascending order
sort_unstable_by(s) == SortFrom(s)

IsSorted(s) == \A i \in 1..(Len(s) - 1) : s[i] <= s[i + 1]

\* ------------------------------------------------ percentile_of_sorted
\* rank, floor and fraction for an in-range percentile (lines 25-32)
PctInterp(s, pct) ==
    LET length == Len(s) - 1
        rank100 == pct * length
        lower_rank == rank100 \div 100
        d100 == rank100 % 100
    IN  Lerp(s, AsUsize(lower_rank), d100, 100)

\* mutant: an empty slice yields 0.0 instead of failing the assertion
percentile_of_sorted_empty_zero(s, pct) ==
    IF Len(s) = 0 THEN Ok(0, {})
    ELSE IF Len(s) = 1 THEN Elem(s, 0)
    ELSE IF ~(0 <= pct) THEN Fail("assert", {})
    ELSE IF ~(pct <= 100) THEN Fail("assert", {})
    ELSE IF pct = 100 THEN Elem(s, Len(s) - 1)
    ELSE PctInterp(s, pct)

\* mutant: the single-element early return is missing
percentile_of_sorted_no_single(s, pct) ==
    IF Len(s) = 0 THEN Fail("assert", {})
    ELSE IF ~(0 <= pct) THEN Fail("assert", {})
    ELSE IF ~(pct <= 100) THEN Fail("assert", {})
    ELSE IF pct = 100 THEN Elem(s, Len(s) - 1)
    ELSE PctInterp(s, pct)

\* mutant: the assertion 0 <= pct is missing
percentile_of_sorted_no_lower_assert(s, pct) ==
    IF Len(s) = 0 THEN Fail("assert", {})
    ELSE IF Len(s) = 1 THEN Elem(s, 0)
    ELSE IF ~(pct <= 100) THEN Fail("assert", {})
    ELSE IF pct = 100 THEN Elem(s, Len(s) - 1)
    ELSE PctInterp(s, pct)

percentile_of_sorted(s, pct) ==
    IF Len(s) = 0 THEN Fail("assert", {})
    ELSE IF Len(s) = 1 THEN Elem(s, 0)
    ELSE IF ~(0 <= pct) THEN Fail("assert", {})
    ELSE IF ~(pct <= 100) THEN Fail("assert", {})
    ELSE IF pct = 100 THEN Elem(s, Len(s) - 1)
    ELSE PctInterp(s, pct)

\* ------------------------------------------- the closure of real / fair
\* mutant: n is the length minus one, not the length plus one
quartile_n_minus(s, p) ==
    LET n == Len(s) - 1
        alpha4 == p * n
        k0 == AsUsize(alpha4 \div Quarter)
        a4 == alpha4 % Quarter
    IN  IF k0 = 0 THEN Elem(s, 0)
        ELSE LET k == k0 - 1
             IN  IF k >= Len(s) - 1 THEN Elem(s, Len(s) - 1)
                 ELSE Lerp(s, k, a4, Quarter)

\* mutant: the fractional part of alpha is not used, s[k] is returned
quartile_no_interp(s, p) ==
    LET n == Len(s) + 1
        alpha4 == p * n
        k0 == AsUsize(alpha4 \div Quarter)
    IN  IF k0 = 0 THEN Elem(s, 0)
        ELSE LET k == k0 - 1
             IN  IF k >= Len(s) - 1 THEN Elem(s, Len(s) - 1)
                 ELSE Lerp(s, k, 0, Quarter)

\* mutant: the last-element test is k > len - 1
quartile_gt(s, p) ==
    LET n == Len(s) + 1
        alpha4 == p * n
        k0 == AsUsize(alpha4 \div Quarter)
        a4 == alpha4 % Quarter
    IN  IF k0 = 0 THEN Elem(s, 0)
        ELSE LET k == k0 - 1
             IN  IF k > Len(s) - 1 THEN Elem(s, Len(s) - 1)
                 ELSE Lerp(s, k, a4, Quarter)

\* alpha = p * n / 4 is kept as alpha4 = 4 * alpha; k0 is its floor and
\* a4 / 4 its fractional part
quartile(s, p) ==
    LET n == Len(s) + 1
        alpha4 == p * n
        k0 == AsUsize(alpha4 \div Quarter)
        a4 == alpha4 % Quarter
    IN  IF k0 = 0 THEN Elem(s, 0)
        ELSE LET k == k0 - 1
             IN  IF k >= Len(s) - 1 THEN Elem(s, Len(s) - 1)
                 ELSE Lerp(s, k, a4, Quarter)

\* ------------------------------------------------------ the constructors
\* the first computation of a sequence that panicked, if any
FirstFail(rs) ==
    LET bad == {i \in 1..Len(rs) : rs[i].st # "ok"}
    IN  IF bad = {} THEN "ok"
        ELSE rs[CHOOSE i \in bad : \A j \in bad : i <= j].st

\* indices read up to and including the first panic
Reads(rs) ==
    LET bad == {i \in 1..Len(rs) : rs[i].st # "ok"}
        last == IF bad = {} THEN Len(rs)
                ELSE CHOOSE i \in bad : \A j \in bad : i <= j
    IN  UNION {rs[i].idx : i \in 1..last}

Summary(st, q, idx) == [st |-> st, q |-> IF st = "ok" THEN q ELSE <<>>, idx |-> idx]

\* mutant: the interquartile range is taken with the wrong sign
new_iqr_swapped(raw) ==
    LET s == sort_unstable_by(raw)
        rl == percentile_of_sorted(s, 25)
        rm == percentile_of_sorted(s, 50)
        ru == percentile_of_sorted(s, 75)
        rs == <<rl, rm, ru>>
        lower == rl.v
        median == rm.v
        upper == ru.v
        iqr == lower - upper
        lower_fence == lower - OneAndHalf(iqr)
        upper_fence == upper + OneAndHalf(iqr)
    IN  Summary(FirstFail(rs),
                <<lower_fence, lower, median, upper, upper_fence>>,
                Reads(rs))

new(raw) ==
    LET s == sort_unstable_by(raw)
        rl == percentile_of_sorted(s, 25)
        rm == percentile_of_sorted(s, 50)
        ru == percentile_of_sorted(s, 75)
        rs == <<rl, rm, ru>>
        lower == rl.v
        median == rm.v
        upper == ru.v
        iqr == upper - lower
        lower_fence == lower - OneAndHalf(iqr)
        upper_fence == upper + OneAndHalf(iqr)
    IN  Summary(FirstFail(rs),
                <<lower_fence, lower, median, upper, upper_fence>>,
                Reads(rs))

real(raw) ==
    LET s == sort_unstable_by(raw)
        rs == <<quartile(s, 0), quartile(s, 1), quartile(s, 2),
                quartile(s, 3), quartile(s, 4)>>
    IN  Summary(FirstFail(rs),
                <<rs[1].v, rs[2].v, rs[3].v, rs[4].v, rs[5].v>>,
                Reads(rs))

\* mutant: the Tukey fences are not clamped to the extrema
fair_unclamped(raw) ==
    LET s == sort_unstable_by(raw)
        rl == quartile(s, 1)
        rm == quartile(s, 2)
        ru == quartile(s, 3)
        rs == <<rl, rm, ru>>
        lower == rl.v
        median == rm.v
        upper == ru.v
        iqr == upper - lower
        lower_fence == lower - OneAndHalf(iqr)
        upper_fence == upper + OneAndHalf(iqr)
    IN  Summary(FirstFail(rs),
                <<lower_fence, lower, median, upper, upper_fence>>,
                Reads(rs))

\* quartile(0) and quartile(4) are evaluated after the three quartiles,
\* inside the max / min calls
fair(raw) ==
    LET s == sort_unstable_by(raw)
        rl == quartile(s, 1)
        rm == quartile(s, 2)
        ru == quartile(s, 3)
        r0 == quartile(s, 0)
        r4 == quartile(s, 4)
        rs == <<rl, rm, ru, r0, r4>>
        lower == rl.v
        median == rm.v
        upper == ru.v
        iqr == upper - lower
        lower_fence == Max(lower - OneAndHalf(iqr), r0.v)
        upper_fence == Min(upper + OneAndHalf(iqr), r4.v)
    IN  Summary(FirstFail(rs),
                <<lower_fence, lower, median, upper, upper_fence>>,
                Reads(rs))

\* ----------------------------------------------------------- the state
VARIABLES
    sample,     \* the caller's slice
    pc,         \* "idle" before the call, then "done" or "panicked"
    fn,         \* the function that was called
    pct,        \* the percentile argument of percentile_of_sorted
    out,        \* the returned five values (or the one percentile); <<>> if none
    why,        \* "ok", or what aborted the call: "assert" / "index"
    touched     \* slice indices the call read

vars == <<sample, pc, fn, pct, out, why, touched>>

Init ==
    /\ sample \in Samples
    /\ pc = "idle"
    /\ fn = "none"
    /\ pct = 0
    /\ out = <<>>
    /\ why = "ok"
    /\ touched = {}

Finish(name, r) ==
    /\ fn' = name
    /\ pc' = IF r.st = "ok" THEN "done" ELSE "panicked"
    /\ out' = r.q
    /\ why' = r.st
    /\ touched' = r.idx
    /\ UNCHANGED sample

CallNew ==
    /\ pc = "idle"
    /\ Finish("new", new(sample))
    /\ UNCHANGED pct

CallReal ==
    /\ pc = "idle"
    /\ Finish("real", real(sample))
    /\ UNCHANGED pct

CallFair ==
    /\ pc = "idle"
    /\ Finish("fair", fair(sample))
    /\ UNCHANGED pct

\* the private helper, applied to a sorted slice
CallPercentile ==
    /\ pc = "idle"
    /\ IsSorted(sample)
    /\ \E p \in Pcts :
        LET r == percentile_of_sorted(sample, p)
        IN  /\ pct' = p
            /\ Finish("percentile_of_sorted",
                      Summary(r.st, <<r.v>>, r.idx))

\* the same calls on samples short enough to enumerate their rearrangements
InitPerm == Init /\ Len(sample) <= MaxPermLen

Next == CallNew \/ CallReal \/ CallFair \/ CallPercentile

Spec == Init /\ [][Next]_vars

SpecPerm == InitPerm /\ [][Next]_vars

TypeOK ==
    /\ sample \in Samples
    /\ pc \in {"idle", "done", "panicked"}
    /\ fn \in {"none", "new", "real", "fair", "percentile_of_sorted"}
    /\ pct \in Pcts
    /\ why \in {"ok", "assert", "index"}
    /\ touched \subseteq Int

\* ------------------------------------------------------------ properties
Ctors == {"new", "real", "fair"}

Apply(f, s) ==
    CASE f = "new" -> new(s)
      [] f = "real" -> real(s)
      [] f = "fair" -> fair(s)

\* the extrema and the middle of a sample, defined without sorting it
Range(s) == {s[i] : i \in 1..Len(s)}
SampleMin(s) == CHOOSE x \in Range(s) : \A y \in Range(s) : x <= y
SampleMax(s) == CHOOSE x \in Range(s) : \A y \in Range(s) : y <= x
Below(s, x) == Cardinality({i \in 1..Len(s) : s[i] < x})
Above(s, x) == Cardinality({i \in 1..Len(s) : s[i] > x})
Middle(s) == CHOOSE x \in Range(s) : 2 * Below(s, x) < Len(s) /\ 2 * Above(s, x) < Len(s)

\* s without its i-th element
Remove(s, i) == SubSeq(s, 1, i - 1) \o SubSeq(s, i + 1, Len(s))

\* the position of the first occurrence of each value of s
FirstOccurrences(s) == {i \in 1..Len(s) : \A j \in 1..(i - 1) : s[j] # s[i]}

\* all rearrangements of s: any of its values first, then a rearrangement
\* of the rest
RECURSIVE Perms(_)
Perms(s) ==
    IF s = <<>> THEN {<<>>}
    ELSE UNION {{<<s[i]>> \o t : t \in Perms(Remove(s, i))} : i \in FirstOccurrences(s)}

Returned == pc = "done" /\ fn \in Ctors

\* C1: called on the empty sample, each of new, real and fair panics and
\* returns no summary.
C1_EmptyPanics ==
    (pc # "idle" /\ fn \in Ctors /\ sample = <<>>)
        => (pc = "panicked" /\ out = <<>>)

C1_Witness == pc = "panicked" /\ fn = "new" /\ sample = <<>> /\ why = "assert"

\* C2: for a non-empty sample, the summary returned by new, real or fair is
\* ordered: lower_fence <= lower <= median <= upper <= upper_fence.
C2_Monotone ==
    (Returned /\ sample # <<>>)
        => (out[1] <= out[2] /\ out[2] <= out[3] /\ out[3] <= out[4] /\ out[4] <= out[5])

C2_Witness ==
    /\ Returned /\ fn = "new" /\ Len(sample) >= 2
    /\ out[1] < out[2] /\ out[2] < out[3] /\ out[3] < out[4] /\ out[4] < out[5]

\* C3: the summary returned for a sample is the summary returned for every
\* rearrangement of that sample, for new, real and fair alike.
C3_OrderInvariant ==
    (Returned /\ sample # <<>>)
        => \A t \in Perms(sample) : Apply(fn, t).q = out

C3_Witness ==
    /\ Returned /\ fn = "real" /\ Len(sample) >= 3
    /\ ~IsSorted(sample)
    /\ Cardinality(Perms(sample)) > 2

\* C4: for a sample of size >= 2, both fences returned by fair lie between
\* the sample minimum and the sample maximum.
C4_FairFencesInRange ==
    (pc = "done" /\ fn = "fair" /\ Len(sample) >= 2)
        => /\ Into(SampleMin(sample)) <= out[1] /\ out[1] <= Into(SampleMax(sample))
           /\ Into(SampleMin(sample)) <= out[5] /\ out[5] <= Into(SampleMax(sample))

\* a sample whose lower Tukey fence is strictly inside the data range
C4_Witness ==
    /\ pc = "done" /\ fn = "fair" /\ Len(sample) >= 2
    /\ Into(SampleMin(sample)) < out[1]
    /\ out[5] = Into(SampleMax(sample))
    /\ out[2] < out[4]

\* C5: fair's lower fence is the larger of new's and real's lower fences,
\* and fair's upper fence is the smaller of new's and real's upper fences.
C5_FairMixesFences ==
    (pc = "done" /\ fn = "fair" /\ sample # <<>>)
        => /\ out[1] = Max(new(sample).q[1], real(sample).q[1])
           /\ out[5] = Min(new(sample).q[5], real(sample).q[5])

\* C6: for a single-element sample [v], new, real and fair return
\* [v, v, v, v, v].
C6_SingleElement ==
    (pc # "idle" /\ fn \in Ctors /\ Len(sample) = 1)
        => /\ pc = "done"
           /\ out = [i \in 1..5 |-> Into(sample[1])]

C6_Witness == Returned /\ fn = "fair" /\ Len(sample) = 1 /\ out[3] = Into(MaxVal)

\* C7: for a non-empty sample, real returns the sample minimum as
\* lower_fence and the sample maximum as upper_fence.
C7_RealFencesAreExtrema ==
    (pc # "idle" /\ fn = "real" /\ sample # <<>>)
        => /\ pc = "done"
           /\ out[1] = Into(SampleMin(sample))
           /\ out[5] = Into(SampleMax(sample))

C7_Witness ==
    /\ pc = "done" /\ fn = "real" /\ Len(sample) >= 4
    /\ out[1] < out[2] /\ out[4] < out[5]

\* C8: for a sample of 2 or 3 elements, real returns
\* [min, min, median, max, max], the median being the midpoint of the two
\* elements (size 2) or the middle element (size 3).
C8_RealSmallSamples ==
    (pc # "idle" /\ fn = "real" /\ Len(sample) \in {2, 3})
        => LET lo == Into(SampleMin(sample))
               hi == Into(SampleMax(sample))
               med == IF Len(sample) = 2 THEN (lo + hi) \div 2
                      ELSE Into(Middle(sample))
           IN  pc = "done" /\ out = <<lo, lo, med, hi, hi>>

C8_Witness ==
    /\ pc = "done" /\ fn = "real" /\ Len(sample) = 2
    /\ out[1] < out[3] /\ out[3] < out[5]

C8_Witness3 ==
    /\ pc = "done" /\ fn = "real" /\ Len(sample) = 3
    /\ out[1] < out[3] /\ out[3] < out[5]

\* C9: for a non-empty sample, new, real and fair run to completion: no
\* assertion of percentile_of_sorted fires and every slice index read is
\* within 0..len-1.
C9_NoPanic ==
    (pc # "idle" /\ fn \in Ctors /\ sample # <<>>)
        => /\ pc = "done"
           /\ why = "ok"
           /\ touched \subseteq 0..(Len(sample) - 1)

\* the interpolating branch has read the last two elements
C9_Witness ==
    /\ Returned /\ fn = "real" /\ Len(sample) >= 2
    /\ {Len(sample) - 2, Len(sample) - 1} \subseteq touched

\* C10 as stated: percentile_of_sorted aborts for every non-empty sorted
\* sequence, of any length, when the percentile is below 0 or above 100.
C10_OutOfRangeAbortsAnyLength ==
    (pc # "idle" /\ fn = "percentile_of_sorted" /\ sample # <<>>
        /\ (pct < 0 \/ pct > 100))
        => (pc = "panicked" /\ out = <<>>)

\* C10 amended: percentile_of_sorted aborts for every sorted sequence of
\* length >= 2 when the percentile is below 0 or above 100; for a
\* single-element sequence it returns the element whatever the percentile.
C10_OutOfRangeAborts ==
    (pc # "idle" /\ fn = "percentile_of_sorted" /\ (pct < 0 \/ pct > 100))
        => /\ Len(sample) >= 2 => (pc = "panicked" /\ why = "assert" /\ out = <<>>)
           /\ Len(sample) = 1 => (pc = "done" /\ out = <<Into(sample[1])>>)

C10_Witness ==
    /\ pc = "panicked" /\ fn = "percentile_of_sorted"
    /\ Len(sample) >= 2 /\ pct < 0 /\ why = "assert"
====
